---- MODULE Spec2Model ----
(***************************************************************************)
(* Model of ctapipe_io_lst/containers.py: the LST container declarations   *)
(* and the operations a client performs on them through the ctapipe        *)
(* Container / Field / Map protocol the file imports (instantiation with   *)
(* deep-copied defaults, attribute assignment on slots, list append,       *)
(* defaultdict lookup and item assignment on the tel map).                 *)
(*                                                                         *)
(* Python objects live in `heap' (a sequence: an object's id is its index),*)
(* so that aliasing between instances and class-level default objects is   *)
(* something the model can exhibit.                                        *)
(***************************************************************************)
EXTENDS Integers, Sequences, FiniteSets, TLC

VARIABLES
  heap,      \* Seq of objects: containers, lists, maps
  fields,    \* class name -> Seq of [name, default, unit]: the classes' `fields'
  roots,     \* Seq of heap ids: the instances the client has created
  last,      \* the last operation performed and its result
  assigned,  \* <<object id, field>> -> the last value assigned by setattr
  appended,  \* ids of list objects mutated in place by append
  nops       \* operations performed on instances so far

vars == <<heap, fields, roots, last, assigned, appended, nops>>

----------------------------------------------------------------------------
\* Bounds of the exploration.
MaxInst == 2

MaxSteps == 4

MaxKey == 2

MaxLen == 2

\* MaxInst: instances the client creates. MaxSteps: operations of a run,
\* instantiations included. MaxKey: telescope ids are drawn from 1..MaxKey.
\* MaxLen: a list is appended to up to this length.

----------------------------------------------------------------------------
\* Python values. Immutable values are held inline; lists, containers and
\* maps are references into the heap. A quantity is (n/d) * pi^pi in unit s,
\* or not-a-number.
Val(kind, n, d, pi, s, nan) ==
  [kind |-> kind, n |-> n, d |-> d, pi |-> pi, s |-> s, nan |-> nan]

IntV(n) == Val("int", n, 1, 0, "", FALSE)

NoneV == Val("none", 0, 1, 0, "", FALSE)

StrV(s) == Val("str", 0, 1, 0, s, FALSE)

QtyV(n, d, pi, unit) == Val("qty", n, d, pi, unit, FALSE)

\* nan * u.deg written where the declaration reads nan * u.rad.
NanQDeg(unit) == Val("qty", 0, 1, 0, "deg", TRUE)

NanQ(unit) == Val("qty", 0, 1, 0, unit, TRUE)

Ref(i) == Val("ref", i, 1, 0, "", FALSE)

IsRef(v) == v.kind = "ref"

\* Field(default, description, unit=...): the default expression as written.
ValD(v) == [k |-> "val", v |-> v, cls |-> ""]

ListD == [k |-> "list", v |-> NoneV, cls |-> ""]

InstD(cls) == [k |-> "inst", v |-> NoneV, cls |-> cls]

MapD(cls) == [k |-> "map", v |-> NoneV, cls |-> cls]

FieldDecl(name, dflt, unit) == [name |-> name, dflt |-> dflt, unit |-> unit]

\* LSTDriveContainer, lines 22-37
LSTDriveContainerDecl ==
  << FieldDecl("date", ValD(StrV(" ")), ""),
     FieldDecl("time_stamp", ValD(IntV(-1)), ""),
     FieldDecl("epoch", ValD(IntV(-1)), ""),
     FieldDecl("time", ValD(IntV(-1)), ""),
     FieldDecl("azimuth_avg", ValD(NanQ("rad")), "rad"),
     FieldDecl("azimuth_min", ValD(NanQ("rad")), "rad"),
     FieldDecl("azimuth_max", ValD(NanQ("rad")), "rad"),
     FieldDecl("azimuth_rmse", ValD(NanQ("rad")), "rad"),
     FieldDecl("altitude_avg", ValD(NanQ("rad")), "rad"),
     FieldDecl("altitude_min", ValD(NanQ("rad")), "rad"),
     FieldDecl("altitude_max", ValD(NanQ("rad")), "rad"),
     FieldDecl("altitude_rmse", ValD(NanQ("rad")), "rad") >>

\* LSTServiceContainer, lines 40-60
LSTServiceContainerDecl ==
  << FieldDecl("telescope_id", ValD(IntV(-1)), ""),
     FieldDecl("cs_serial", ValD(NoneV), ""),
     FieldDecl("configuration_id", ValD(NoneV), ""),
     FieldDecl("date", ValD(NoneV), ""),
     FieldDecl("num_pixels", ValD(IntV(-1)), ""),
     FieldDecl("num_samples", ValD(IntV(-1)), ""),
     FieldDecl("pixel_ids", ListD, ""),
     FieldDecl("data_model_version", ValD(NoneV), ""),
     FieldDecl("idaq_version", ValD(IntV(0)), ""),
     FieldDecl("cdhs_version", ValD(IntV(0)), ""),
     FieldDecl("algorithms", ValD(NoneV), ""),
     FieldDecl("pre_proc_algorithms", ValD(NoneV), ""),
     FieldDecl("module_ids", ListD, ""),
     FieldDecl("num_modules", ValD(IntV(-1)), "") >>

\* LSTEventContainer, lines 63-109
LSTEventContainerDecl ==
  << FieldDecl("configuration_id", ValD(NoneV), ""),
     FieldDecl("event_id", ValD(NoneV), ""),
     FieldDecl("tel_event_id", ValD(NoneV), ""),
     FieldDecl("pixel_status", ListD, ""),
     FieldDecl("ped_id", ValD(NoneV), ""),
     FieldDecl("module_status", ListD, ""),
     FieldDecl("extdevices_presence", ValD(NoneV), ""),
     FieldDecl("tib_event_counter", ValD(NoneV), ""),
     FieldDecl("tib_pps_counter", ValD(NoneV), ""),
     FieldDecl("tib_tenMHz_counter", ValD(NoneV), ""),
     FieldDecl("tib_stereo_pattern", ValD(NoneV), ""),
     FieldDecl("tib_masked_trigger", ValD(NoneV), ""),
     FieldDecl("ucts_event_counter", ValD(NoneV), ""),
     FieldDecl("ucts_pps_counter", ValD(NoneV), ""),
     FieldDecl("ucts_clock_counter", ValD(NoneV), ""),
     FieldDecl("ucts_timestamp", ValD(NoneV), ""),
     FieldDecl("ucts_camera_timestamp", ValD(NoneV), ""),
     FieldDecl("ucts_trigger_type", ValD(NoneV), ""),
     FieldDecl("ucts_white_rabbit_status", ValD(NoneV), ""),
     FieldDecl("swat_timestamp", ValD(NoneV), ""),
     FieldDecl("swat_counter1", ValD(NoneV), ""),
     FieldDecl("swat_counter2", ValD(NoneV), ""),
     FieldDecl("swat_event_type", ValD(NoneV), ""),
     FieldDecl("swat_camera_flag", ValD(NoneV), ""),
     FieldDecl("swat_camera_event_num", ValD(NoneV), ""),
     FieldDecl("swat_array_flag", ValD(NoneV), ""),
     FieldDecl("swat_array_event_num", ValD(NoneV), ""),
     FieldDecl("pps_counter", ListD, ""),
     FieldDecl("tenMHz_counter", ListD, ""),
     FieldDecl("event_counter", ListD, ""),
     FieldDecl("trigger_counter", ListD, ""),
     FieldDecl("local_clock_counter", ListD, ""),
     FieldDecl("chips_flags", ListD, ""),
     FieldDecl("first_capacitor_id", ListD, ""),
     FieldDecl("drs_tag_status", ListD, ""),
     FieldDecl("drs_tag", ListD, "") >>

\* LSTMonitoringContainer, lines 112-117
LSTMonitoringContainerDecl ==
  << FieldDecl("drive", InstD("LSTDriveContainer"), "") >>

\* LSTCameraContainer, lines 120-126
LSTCameraContainerDecl ==
  << FieldDecl("evt", InstD("LSTEventContainer"), ""),
     FieldDecl("svc", InstD("LSTServiceContainer"), ""),
     FieldDecl("mon", InstD("LSTMonitoringContainer"), "") >>

\* LSTContainer, lines 129-138
LSTContainerDecl ==
  << FieldDecl("tels_with_data", ListD, ""),
     FieldDecl("tel", MapD("LSTCameraContainer"), "") >>

\* LSTDataContainer, lines 141-146
LSTDataContainerDecl ==
  << FieldDecl("lst", InstD("LSTContainer"), ""),
     FieldDecl("mon", InstD("MonitoringContainer"), "") >>

\* The two records of the host framework the file imports (line 7). Their
\* declarations are outside this file: MonitoringContainer is held as a record
\* with no modelled field, and DataContainer as a base record that has its
\* event counter and may or may not already declare a field named mon.
MonitoringContainerDecl == << >>

DataContainerDecl(hasMon) ==
  IF hasMon
    THEN << FieldDecl("count", ValD(IntV(0)), ""),
            FieldDecl("mon", InstD("MonitoringContainer"), "") >>
    ELSE << FieldDecl("count", ValD(IntV(0)), "") >>

Classes ==
  { "LSTDriveContainer", "LSTServiceContainer", "LSTEventContainer",
    "LSTMonitoringContainer", "LSTCameraContainer", "LSTContainer",
    "LSTDataContainer" }

----------------------------------------------------------------------------
\* Heap objects. Every object keeps what it holds in `slots': a container
\* its attributes by field name, a list its items by position, a map its
\* entries by key. `cls' is a container's class and a map's default_factory
\* (Map(cls) is a defaultdict; "" stands for no factory).
ContainerObj(cls) == [type |-> "container", cls |-> cls, slots |-> << >>]

ListObj(items) == [type |-> "list", cls |-> "", slots |-> items]

MapObj(factory) == [type |-> "map", cls |-> factory, slots |-> << >>]

RefsOf(obj) == { obj.slots[x].n : x \in { y \in DOMAIN obj.slots : IsRef(obj.slots[y]) } }

RECURSIVE ReachFrom(_, _, _)
ReachFrom(h, frontier, seen) ==
  IF frontier = {} THEN seen
  ELSE ReachFrom(h, (UNION { RefsOf(h[i]) : i \in frontier }) \ (seen \cup frontier),
                 seen \cup frontier)

\* The objects reachable from object i, itself included.
Reach(h, i) == ReachFrom(h, {i}, {})

\* A copy that duplicates nothing: the instance is handed the default object
\* itself (what an __init__ without deepcopy would do).
CopiedShallow(h, v) == {}

\* copy.deepcopy(v): the objects it duplicates. An immutable value is
\* returned as it is; an object is copied with everything reachable from it.
Copied(h, v) == IF IsRef(v) THEN Reach(h, v.n) ELSE {}

\* astropy.units: Quantity.to(unit) between degrees and radians,
\* 1 deg = pi/180 rad; not-a-number stays not-a-number.
Convert(q, unit) ==
  IF q.kind # "qty" \/ q.s = unit THEN q
  ELSE IF q.s = "deg" /\ unit = "rad" THEN [q EXCEPT !.d = @ * 180, !.pi = @ + 1, !.s = unit]
  ELSE IF q.s = "rad" /\ unit = "deg" THEN [q EXCEPT !.n = @ * 180, !.pi = @ - 1, !.s = unit]
  ELSE q

\* An assignment that brings a quantity to radians before storing it.
StoreCoerced(h, id, x, v) ==
  [h EXCEPT ![id].slots =
     [y \in (DOMAIN @) \cup {x} |-> IF y = x THEN Convert(v, "rad") ELSE @[y]]]

\* An assignment that lands on the class: every instance of the class of
\* `id' sees the value.
StoreOnClass(h, id, x, v) ==
  [i \in DOMAIN h |->
     IF h[i].type = h[id].type /\ h[i].cls = h[id].cls /\ (i = id \/ x \in DOMAIN h[i].slots)
       THEN [h[i] EXCEPT !.slots =
               [y \in (DOMAIN @) \cup {x} |-> IF y = x THEN v ELSE @[y]]]
       ELSE h[i]]

\* obj.slots[x] = v: setattr on a slot, or item assignment.
Store(h, id, x, v) ==
  [h EXCEPT ![id].slots =
     [y \in (DOMAIN @) \cup {x} |-> IF y = x THEN v ELSE @[y]]]

\* Container.__init__ of an instance placed at heap cell `self':
\*     for k, v in self.fields.items():
\*         setattr(self, k, deepcopy(v.default))
\* The result is the new cells: the instance, then the copies made for its
\* fields, field by field (pair <<i, j>>: the copy of cell j made for field
\* i). Each deepcopy call has its own memo, so an object is copied once per
\* field that reaches it.
NewAt(h, flds, cls, self) ==
  LET fs == flds[cls]
      P == UNION { { <<i, j>> : j \in Copied(h, fs[i].default) } : i \in DOMAIN fs }
      Moved(i, v, PP) ==
        IF IsRef(v) /\ <<i, v.n>> \in PP
          THEN Ref(self + Cardinality({ p \in PP : p[1] < i \/ (p[1] = i /\ p[2] <= v.n) }))
          ELSE v
  IN [k \in 1..(1 + Cardinality(P)) |->
        IF k = 1
          THEN [ContainerObj(cls) EXCEPT !.slots =
                  [f \in { fs[i].name : i \in DOMAIN fs } |->
                     Moved(CHOOSE i \in DOMAIN fs : fs[i].name = f,
                           fs[CHOOSE i \in DOMAIN fs : fs[i].name = f].default, P)]]
          ELSE LET q == CHOOSE q \in P : Moved(q[1], Ref(q[2]), P) = Ref(self + k - 1)
               IN [h[q[2]] EXCEPT !.slots =
                     [x \in DOMAIN h[q[2]].slots |-> Moved(q[1], h[q[2]].slots[x], P)]]]

\* cls(): a new instance with every field at a copy of its default.
New(h, flds, cls) ==
  [heap |-> h \o NewAt(h, flds, cls, Len(h) + 1), id |-> Len(h) + 1]

----------------------------------------------------------------------------
\* Module import: the class bodies run top to bottom, each Field(...) call
\* evaluating its default expression once, and ContainerMeta collects the
\* fields (inherited ones first, a redeclared name replacing the inherited).

\* A list default written [0] where the declaration reads [].
MakeDefaultOneItem(h, flds, d, at) ==
  CASE d.k = "val" -> << >>
    [] d.k = "list" -> << ListObj(<< IntV(0) >>) >>
    [] d.k = "map" -> << MapObj(d.cls) >>
    [] d.k = "inst" -> NewAt(h, flds, d.cls, at)

\* The objects the default expression d creates when evaluated with the next
\* free cell being `at'.
MakeDefault(h, flds, d, at) ==
  CASE d.k = "val" -> << >>
    [] d.k = "list" -> << ListObj(<< >>) >>
    [] d.k = "map" -> << MapObj(d.cls) >>
    [] d.k = "inst" -> NewAt(h, flds, d.cls, at)

\* Q holds <<i, j>> for the j-th cell created by the i-th declaration.
DefineFields(h, flds, decl) ==
  LET Q == UNION { { <<i, j>> : j \in 1..Len(MakeDefault(h, flds, decl[i].dflt, 0)) } :
                   i \in DOMAIN decl }
      Off(i, QQ) == Cardinality({ q \in QQ : q[1] < i })
  IN [heap |-> h \o [k \in 1..Cardinality(Q) |->
                       LET q == CHOOSE q \in Q : Off(q[1], Q) + q[2] = k
                       IN MakeDefault(h, flds, decl[q[1]].dflt, Len(h) + k - q[2] + 1)[q[2]]],
      own |-> [i \in DOMAIN decl |->
                 [name |-> decl[i].name,
                  default |-> IF decl[i].dflt.k = "val" THEN decl[i].dflt.v
                              ELSE Ref(Len(h) + Off(i, Q) + 1),
                  unit |-> decl[i].unit]]]

Names(fs) == { fs[i].name : i \in DOMAIN fs }

FieldOf(fs, f) == fs[CHOOSE i \in DOMAIN fs : fs[i].name = f]

\* A metaclass that collects the class body's fields and forgets the base's.
MergeOwnOnly(inherited, own) == own

MergeFields(inherited, own) ==
  [i \in DOMAIN inherited |->
     IF inherited[i].name \in Names(own) THEN FieldOf(own, inherited[i].name)
     ELSE inherited[i]]
  \o SelectSeq(own, LAMBDA r : r.name \notin Names(inherited))

\* class cls(base): ...   (base "" for a direct subclass of Container)
DefineClass(st, cls, base, decl) ==
  LET r == DefineFields(st.heap, st.fields, decl)
  IN [heap |-> r.heap,
      fields |-> [c \in (DOMAIN st.fields) \cup {cls} |->
                    IF c # cls THEN st.fields[c]
                    ELSE MergeFields(IF base = "" THEN << >> ELSE st.fields[base], r.own)]]

Import0 == [heap |-> << >>, fields |-> << >>]

Import1 == DefineClass(Import0, "MonitoringContainer", "", MonitoringContainerDecl)

Import2 == DefineClass(Import1, "LSTDriveContainer", "", LSTDriveContainerDecl)

Import3 == DefineClass(Import2, "LSTServiceContainer", "", LSTServiceContainerDecl)

Import4 == DefineClass(Import3, "LSTEventContainer", "", LSTEventContainerDecl)

Import5 == DefineClass(Import4, "LSTMonitoringContainer", "", LSTMonitoringContainerDecl)

Import6 == DefineClass(Import5, "LSTCameraContainer", "", LSTCameraContainerDecl)

Import7 == DefineClass(Import6, "LSTContainer", "", LSTContainerDecl)

\* The base record as the framework declares it, in its two possible shapes.
\* (Its default objects are built when line 7 imports it; they are placed
\* after the LST classes' here, cell numbers carrying no meaning.)
ImportBase(hasMon) == DefineClass(Import7, "DataContainer", "", DataContainerDecl(hasMon))

\* class LSTDataContainer(DataContainer): the base's fields are inherited.
Import(hasMon) ==
  DefineClass(ImportBase(hasMon), "LSTDataContainer", "DataContainer",
              LSTDataContainerDecl)

NoOp == [op |-> "import", obj |-> 0, field |-> "", key |-> 0, val |-> NoneV,
         res |-> NoneV, raised |-> FALSE]

Init ==
  \E st \in { Import(hasMon) : hasMon \in BOOLEAN } :
    /\ heap = st.heap
    /\ fields = st.fields
    /\ roots = << >>
    /\ last = NoOp
    /\ assigned = << >>
    /\ appended = {}
    /\ nops = 0

----------------------------------------------------------------------------
\* Client operations. The client holds the instances it created (roots) and
\* works on whatever it can reach from them by attribute and item access.
Live == UNION { Reach(heap, roots[r]) : r \in DOMAIN roots }

Budget == Len(roots) + nops < MaxSteps

\* x = cls()
Instantiate(cls) ==
  /\ Budget
  /\ Len(roots) < MaxInst
  /\ heap' = New(heap, fields, cls).heap
  /\ roots' = Append(roots, Len(heap) + 1)
  /\ last' = [NoOp EXCEPT !.op = "new", !.obj = Len(heap) + 1, !.res = Ref(Len(heap) + 1)]
  /\ UNCHANGED <<fields, assigned, appended, nops>>

\* The sample values a loader stores in a field: a number or a quantity in
\* degrees where the default is a plain value (nothing ties a field to the
\* type of its default), and, where the default is an object, Fresh: an
\* object built for the assignment (a one-element list, a new instance of
\* the declared record, a new Map).
SampleValues == { IntV(7), QtyV(90, 1, 0, "deg") }

Fresh == Val("fresh", 0, 1, 0, "", FALSE)

Samples(fd) == IF IsRef(fd.default) THEN { Fresh } ELSE SampleValues

\* The fields the client writes and appends to: every field of the records
\* that nest or map others, and of the leaf records one field of each kind
\* of default.
ProbeFields ==
  { "date", "azimuth_avg", "telescope_id", "pixel_ids", "event_id",
    "pixel_status", "drive", "evt", "svc", "mon", "tels_with_data", "tel",
    "lst", "count" }

\* The cells the assigned object takes, for a field whose default is d.
FreshObjs(h, flds, d) ==
  LET proto == h[d.n]
  IN CASE proto.type = "list" -> << ListObj(<< IntV(1) >>) >>
       [] proto.type = "map" -> << MapObj(proto.cls) >>
       [] proto.type = "container" -> NewAt(h, flds, proto.cls, Len(h) + 1)

\* obj.f = v  (Container declares __slots__: only declared fields exist)
SetField(o, f, v) ==
  /\ Budget
  /\ heap[o].type = "container"
  /\ f \in Names(fields[heap[o].cls])
  /\ v \in Samples(FieldOf(fields[heap[o].cls], f))
  /\ o \in Live
  /\ LET fd == FieldOf(fields[heap[o].cls], f)
         h1 == IF v = Fresh THEN heap \o FreshObjs(heap, fields, fd.default) ELSE heap
         w == IF v = Fresh THEN Ref(Len(heap) + 1) ELSE v
     IN /\ heap' = Store(h1, o, f, w)
        /\ assigned' = [p \in (DOMAIN assigned) \cup {<<o, f>>} |->
                          IF p = <<o, f>> THEN w ELSE assigned[p]]
        /\ last' = [NoOp EXCEPT !.op = "setattr", !.obj = o, !.field = f, !.val = w]
  /\ nops' = nops + 1
  /\ UNCHANGED <<fields, roots, appended>>

\* obj.f.append(k), the field holding a list
ListAppend(o, f, k) ==
  /\ Budget
  /\ heap[o].type = "container"
  /\ f \in DOMAIN heap[o].slots
  /\ IsRef(heap[o].slots[f])
  /\ heap[heap[o].slots[f].n].type = "list"
  /\ o \in Live
  /\ LET l == heap[o].slots[f].n
     IN /\ Len(heap[l].slots) < MaxLen
        /\ heap' = [heap EXCEPT ![l].slots = Append(@, IntV(k))]
        /\ appended' = appended \cup {l}
        /\ last' = [NoOp EXCEPT !.op = "append", !.obj = l, !.key = k, !.val = IntV(k)]
  /\ nops' = nops + 1
  /\ UNCHANGED <<fields, roots, assigned>>

\* A plain dict in place of the defaultdict: a missing key raises KeyError.
MapGetPlainDict(h, flds, m, k) ==
  IF k \in DOMAIN h[m].slots
    THEN [heap |-> h, res |-> h[m].slots[k], raised |-> FALSE]
    ELSE [heap |-> h, res |-> NoneV, raised |-> TRUE]

\* A lookup that builds the default record and returns it without storing it
\* (dict.get(k, cls()) in place of __missing__).
MapGetNoInsert(h, flds, m, k) ==
  IF k \in DOMAIN h[m].slots
    THEN [heap |-> h, res |-> h[m].slots[k], raised |-> FALSE]
    ELSE [heap |-> h \o NewAt(h, flds, h[m].cls, Len(h) + 1),
          res |-> Ref(Len(h) + 1), raised |-> FALSE]

\* A __missing__ that starts the map over with the new entry alone.
MapGetReset(h, flds, m, k) ==
  IF k \in DOMAIN h[m].slots
    THEN [heap |-> h, res |-> h[m].slots[k], raised |-> FALSE]
  ELSE IF h[m].cls = ""
    THEN [heap |-> h, res |-> NoneV, raised |-> TRUE]
  ELSE [heap |-> [(h \o NewAt(h, flds, h[m].cls, Len(h) + 1)) EXCEPT
                    ![m].slots = [y \in {k} |-> Ref(Len(h) + 1)]],
        res |-> Ref(Len(h) + 1), raised |-> FALSE]

\* defaultdict.__getitem__: m[k], with __missing__ calling default_factory
\* (KeyError when there is none) and storing what it returns under k.
MapGet(h, flds, m, k) ==
  IF k \in DOMAIN h[m].slots
    THEN [heap |-> h, res |-> h[m].slots[k], raised |-> FALSE]
  ELSE IF h[m].cls = ""
    THEN [heap |-> h, res |-> NoneV, raised |-> TRUE]
  ELSE [heap |-> Store(h \o NewAt(h, flds, h[m].cls, Len(h) + 1), m, k, Ref(Len(h) + 1)),
        res |-> Ref(Len(h) + 1), raised |-> FALSE]

\* m[k]
Lookup(m, k) ==
  /\ Budget
  /\ heap[m].type = "map"
  /\ m \in Live
  /\ \E g \in { MapGet(heap, fields, m, k) } :
        /\ heap' = g.heap
        /\ last' = [NoOp EXCEPT !.op = "getitem", !.obj = m, !.key = k,
                                !.res = g.res, !.raised = g.raised]
  /\ nops' = nops + 1
  /\ UNCHANGED <<fields, roots, assigned, appended>>

\* m[k] = cls()  with cls the record the map holds
SetItem(m, k) ==
  /\ Budget
  /\ heap[m].type = "map"
  /\ heap[m].cls # ""
  /\ m \in Live
  /\ heap' = Store(heap \o NewAt(heap, fields, heap[m].cls, Len(heap) + 1), m, k,
                   Ref(Len(heap) + 1))
  /\ last' = [NoOp EXCEPT !.op = "setitem", !.obj = m, !.key = k,
                          !.val = Ref(Len(heap) + 1)]
  /\ nops' = nops + 1
  /\ UNCHANGED <<fields, roots, assigned, appended>>

\* obj.f.to(unit): the client reads a quantity and has astropy express it
\* in another unit. Nothing is stored.
ToUnit(o, f, unit) ==
  /\ Budget
  /\ heap[o].type = "container"
  /\ f \in DOMAIN heap[o].slots
  /\ heap[o].slots[f].kind = "qty"
  /\ o \in Live
  /\ last' = [NoOp EXCEPT !.op = "to", !.obj = o, !.field = f,
                          !.val = heap[o].slots[f],
                          !.res = Convert(heap[o].slots[f], unit)]
  /\ nops' = nops + 1
  /\ UNCHANGED <<heap, fields, roots, assigned, appended>>

Keys == 1..MaxKey

Next ==
  \/ \E cls \in Classes : Instantiate(cls)
  \/ \E o \in Live, f \in ProbeFields, v \in SampleValues \cup {Fresh} :
       SetField(o, f, v)
  \/ \E o \in Live, f \in ProbeFields, k \in Keys : ListAppend(o, f, k)
  \/ \E m \in Live, k \in Keys : Lookup(m, k)
  \/ \E m \in Live, k \in Keys : SetItem(m, k)
  \/ \E o \in Live, f \in ProbeFields : ToUnit(o, f, "rad")

Spec == Init /\ [][Next]_vars

----------------------------------------------------------------------------
\* What the declarations say, for comparing instances against them.
DeclOf(cls) ==
  CASE cls = "LSTDriveContainer" -> LSTDriveContainerDecl
    [] cls = "LSTServiceContainer" -> LSTServiceContainerDecl
    [] cls = "LSTEventContainer" -> LSTEventContainerDecl
    [] cls = "LSTMonitoringContainer" -> LSTMonitoringContainerDecl
    [] cls = "LSTCameraContainer" -> LSTCameraContainerDecl
    [] cls = "LSTContainer" -> LSTContainerDecl
    [] cls = "LSTDataContainer" -> LSTDataContainerDecl
    [] OTHER -> MonitoringContainerDecl

RECURSIVE AtDefault(_, _, _)
\* Value v of heap h is what the default expression d evaluates to.
AtDefault(h, v, d) ==
  CASE d.k = "val" -> v = d.v
    [] d.k = "list" -> IsRef(v) /\ h[v.n].type = "list" /\ h[v.n].slots = << >>
    [] d.k = "map" ->
         IsRef(v) /\ h[v.n].type = "map" /\ h[v.n].cls = d.cls /\ h[v.n].slots = << >>
    [] d.k = "inst" ->
         /\ IsRef(v)
         /\ h[v.n].type = "container"
         /\ h[v.n].cls = d.cls
         /\ \A i \in DOMAIN DeclOf(d.cls) :
              /\ DeclOf(d.cls)[i].name \in DOMAIN h[v.n].slots
              /\ AtDefault(h, h[v.n].slots[DeclOf(d.cls)[i].name], DeclOf(d.cls)[i].dflt)

\* Object o of heap h is an instance of cls with every declared field at default.
FreshInstance(h, o, cls) == AtDefault(h, Ref(o), InstD(cls))

\* C1: an instance made by cls() has, for every declared field of every
\* declared record type, the default written in the declaration, nested
\* records being sub-records at their own defaults, whatever was done to
\* other instances before.
C1_DefaultsOnInstantiation ==
  last.op = "new" =>
    /\ heap[last.obj].cls \in Classes
    /\ FreshInstance(heap, last.obj, heap[last.obj].cls)

\* C1 witness: a second LSTServiceContainer made after the first one's
\* pixel_ids list was appended to has telescope_id -1, num_pixels -1 and an
\* empty pixel_ids.
C1_Witness ==
  /\ last.op = "new"
  /\ Len(roots) = 2
  /\ heap[roots[1]].cls = "LSTServiceContainer"
  /\ heap[roots[2]].cls = "LSTServiceContainer"
  /\ heap[heap[roots[1]].slots["pixel_ids"].n].slots = << IntV(1) >>
  /\ heap[roots[2]].slots["telescope_id"] = IntV(-1)
  /\ heap[roots[2]].slots["num_pixels"] = IntV(-1)
  /\ heap[heap[roots[2]].slots["pixel_ids"].n].slots = << >>

\* A step that performs the lookup m[k].
IsLookup == nops' = nops + 1 /\ last'.op = "getitem"

\* C2: looking up a key not yet in tel never raises and returns an
\* LSTCameraContainer whose evt, svc and mon are at their declared defaults,
\* however the records under other keys were populated.
C2_MissingKeyGivesDefault ==
  [][ (IsLookup /\ last'.key \notin DOMAIN heap[last'.obj].slots) =>
        /\ ~last'.raised
        /\ IsRef(last'.res)
        /\ FreshInstance(heap', last'.res.n, "LSTCameraContainer")
        /\ \A f \in {"evt", "svc", "mon"} : f \in DOMAIN heap'[last'.res.n].slots ]_vars

\* C2 witness: tel[2] was just looked up for the first time and is at
\* default, while the record under key 1 has had a field assigned.
C2_Witness ==
  /\ last.op = "getitem"
  /\ last.key = 2
  /\ ~last.raised
  /\ DOMAIN heap[last.obj].slots = {1, 2}
  /\ \E p \in DOMAIN assigned : p[1] \in Reach(heap, heap[last.obj].slots[1].n)
  /\ ~FreshInstance(heap, heap[last.obj].slots[1].n, "LSTCameraContainer")
  /\ FreshInstance(heap, last.res.n, "LSTCameraContainer")

\* C9: a lookup of a missing key stores the record it returns under that
\* key; a lookup of a present key returns the stored record and changes
\* nothing; lookups only add keys; a lookup changes no other cell of the heap
\* (the records under other keys, tels_with_data); and an entry stays the
\* same object across every step that is not an item assignment, so a later
\* lookup returns it with what was populated into it.
C9_LookupInserts ==
  [][ /\ IsLookup =>
           /\ last'.key \in DOMAIN heap'[last'.obj].slots
           /\ heap'[last'.obj].slots[last'.key] = last'.res
           /\ DOMAIN heap[last'.obj].slots \subseteq DOMAIN heap'[last'.obj].slots
           /\ \A j \in DOMAIN heap[last'.obj].slots :
                heap'[last'.obj].slots[j] = heap[last'.obj].slots[j]
           /\ \A i \in DOMAIN heap : i # last'.obj => heap'[i] = heap[i]
           /\ last'.key \in DOMAIN heap[last'.obj].slots => heap' = heap
      /\ last'.op \notin {"setitem"} =>
           \A m \in { i \in DOMAIN heap : heap[i].type = "map" } :
             \A j \in DOMAIN heap[m].slots :
               /\ j \in DOMAIN heap'[m].slots
               /\ heap'[m].slots[j] = heap[m].slots[j] ]_vars

\* C9 witness: tel[1] is looked up again after a field of the record under
\* it was assigned, and the lookup returns that record, the value still there.
C9_Witness ==
  /\ last.op = "getitem"
  /\ last.key = 1
  /\ DOMAIN heap[last.obj].slots = {1}
  /\ last.res = heap[last.obj].slots[1]
  /\ \E p \in DOMAIN assigned :
       /\ p[1] \in Reach(heap, last.res.n)
       /\ heap[p[1]].slots[p[2]] = assigned[p]
       /\ assigned[p] = IntV(7)

\* C3: every field that has been assigned reads back exactly the value last
\* assigned to it (the same number, the same quantity in the same unit, the
\* same object), whichever fields of the record were assigned and in
\* whichever order.
C3_RoundTrip ==
  \A p \in DOMAIN assigned :
    /\ p[2] \in DOMAIN heap[p[1]].slots
    /\ heap[p[1]].slots[p[2]] = assigned[p]
    /\ (last.op = "setattr" /\ p = <<last.obj, last.field>>) => assigned[p] = last.val

\* C3 witness: every field of an LSTCameraContainer, or of an LSTContainer,
\* has been assigned, the last of them just now.
C3_Witness ==
  \E r \in DOMAIN roots :
    /\ heap[roots[r]].cls \in {"LSTCameraContainer", "LSTContainer"}
    /\ \A f \in DOMAIN heap[roots[r]].slots : <<roots[r], f>> \in DOMAIN assigned
    /\ last.op = "setattr"
    /\ last.obj = roots[r]

\* A step that performs the assignment obj.f = v.
IsSetattr == nops' = nops + 1 /\ last'.op = "setattr"

\* The objects holding the classes' declared defaults.
DefaultObjs(h, flds) ==
  UNION { UNION { Reach(h, flds[c][i].default.n) :
                  i \in { j \in DOMAIN flds[c] : IsRef(flds[c][j].default) } } :
          c \in DOMAIN flds }

\* C10: an assignment obj.f = v changes slot f of obj and nothing else: no
\* other field of obj, no other object (nested and sibling records, other
\* instances, the objects holding the declared defaults), and not the
\* classes' field declarations. So a field of a live record holds the value
\* last assigned to it, or else what instantiation put there: the declared
\* default for a plain value, and for a list, record or map an object of the
\* declared kind of its own (the list empty unless appended to).
C10_AssignmentFrame ==
  /\ [][ IsSetattr =>
           /\ fields' = fields
           /\ \A i \in DOMAIN heap : i # last'.obj => heap'[i] = heap[i]
           /\ heap'[last'.obj].type = heap[last'.obj].type
           /\ heap'[last'.obj].cls = heap[last'.obj].cls
           /\ DOMAIN heap'[last'.obj].slots = DOMAIN heap[last'.obj].slots
           /\ \A g \in DOMAIN heap[last'.obj].slots :
                g # last'.field => heap'[last'.obj].slots[g] = heap[last'.obj].slots[g]
           /\ heap'[last'.obj].slots[last'.field] = last'.val ]_vars
  /\ [](\A D \in { DefaultObjs(heap, fields) } :
        \A o \in { i \in Live : heap[i].type = "container" } :
          \A i \in DOMAIN fields[heap[o].cls] :
            LET fd == fields[heap[o].cls][i]
                v == heap[o].slots[fd.name]
            IN IF <<o, fd.name>> \in DOMAIN assigned THEN v = assigned[<<o, fd.name>>]
               ELSE IF ~IsRef(fd.default) THEN v = fd.default
               ELSE /\ IsRef(v)
                    /\ v.n \notin D
                    /\ heap[v.n].type = heap[fd.default.n].type
                    /\ heap[v.n].cls = heap[fd.default.n].cls
                    /\ heap[v.n].type = "list" =>
                         (heap[v.n].slots = << >> \/ v.n \in appended))

\* C10 witness: of two LSTServiceContainer instances one has had
\* telescope_id assigned and the other still holds -1.
C10_Witness ==
  /\ last.op = "setattr"
  /\ last.field = "telescope_id"
  /\ Len(roots) = 2
  /\ heap[roots[1]].cls = "LSTServiceContainer"
  /\ heap[roots[2]].cls = "LSTServiceContainer"
  /\ \E a, b \in {roots[1], roots[2]} :
       /\ a = last.obj
       /\ heap[a].slots["telescope_id"] = IntV(7)
       /\ heap[a].slots["num_pixels"] = IntV(-1)
       /\ heap[b].slots["telescope_id"] = IntV(-1)

----------------------------------------------------------------------------
\* Kinds of default value.
IsEmptyList(h, v) == IsRef(v) /\ h[v.n].type = "list" /\ h[v.n].slots = << >>

IsNested(h, v) == IsRef(v) /\ h[v.n].type \in {"container", "map"}

IsNanIn(v, unit) == v.kind = "qty" /\ v.nan /\ v.s = unit

\* The container objects of the instance just created.
NewContainers ==
  { o \in Reach(heap, last.obj) : heap[o].type = "container" }

\* C4 as stated: every field of a new instance holds -1, an empty sequence,
\* a textual placeholder or not-a-number carrying a unit (nested records and
\* the map of records aside).
C4_Original ==
  last.op = "new" =>
    \A o \in NewContainers : \A f \in DOMAIN heap[o].slots :
      \E v \in { heap[o].slots[f] } :
        \/ v = IntV(-1)
        \/ IsEmptyList(heap, v)
        \/ v.kind = "str"
        \/ (v.kind = "qty" /\ v.nan /\ v.s # "")
        \/ IsNested(heap, v)

\* C4 (amended): every declared default, and every field of a new instance,
\* is one of -1, 0, None, an empty sequence, the textual placeholder " " or
\* not-a-number in radians (nested records and the map of records aside).
C4_Sentinels ==
  /\ \A c \in DOMAIN fields : \A i \in DOMAIN fields[c] :
       \E v \in { fields[c][i].default } :
         \/ v \in { IntV(-1), IntV(0), NoneV, StrV(" ") }
         \/ IsNanIn(v, "rad")
         \/ IsEmptyList(heap, v)
         \/ IsNested(heap, v)
  /\ last.op = "new" =>
       \A o \in NewContainers : \A f \in DOMAIN heap[o].slots :
         \E v \in { heap[o].slots[f] } :
           \/ v \in { IntV(-1), IntV(0), NoneV, StrV(" ") }
           \/ IsNanIn(v, "rad")
           \/ IsEmptyList(heap, v)
           \/ IsNested(heap, v)

\* C4 witness: a new LSTServiceContainer, whose defaults are -1, None, 0 and
\* empty lists.
C4_Witness ==
  /\ last.op = "new"
  /\ heap[last.obj].cls = "LSTServiceContainer"
  /\ heap[last.obj].slots["telescope_id"] = IntV(-1)
  /\ heap[last.obj].slots["cs_serial"] = NoneV
  /\ heap[last.obj].slots["idaq_version"] = IntV(0)
  /\ IsEmptyList(heap, heap[last.obj].slots["module_ids"])

AngleFields ==
  { "azimuth_avg", "azimuth_min", "azimuth_max", "azimuth_rmse",
    "altitude_avg", "altitude_min", "altitude_max", "altitude_rmse" }

\* The angle a quantity denotes, as a fraction n/d * pi^e of a full turn
\* (a degree is 1/360 of a turn, a radian 1/(2 pi)).
Turns(q) ==
  IF q.s = "deg" THEN [n |-> q.n, d |-> q.d * 360, e |-> q.pi]
  ELSE [n |-> q.n, d |-> q.d * 2, e |-> q.pi - 1]

SameAngle(a, b) ==
  /\ a.kind = "qty" /\ b.kind = "qty"
  /\ a.nan = b.nan
  /\ ~a.nan => /\ Turns(a).n * Turns(b).d = Turns(b).n * Turns(a).d
               /\ Turns(a).e = Turns(b).e

\* C5: LSTDriveContainer declares its eight angle fields with unit rad and
\* default not-a-number in radians, and its four other fields with no unit
\* and a default that is not a quantity; a new instance holds these; and a
\* quantity read from a field and expressed in radians (a value assigned in
\* degrees in particular) is in radians and denotes the same angle, the
\* field still holding what was assigned.
C5_DriveAngles ==
  /\ Names(fields["LSTDriveContainer"]) =
       AngleFields \cup {"date", "time_stamp", "epoch", "time"}
  /\ \A i \in DOMAIN fields["LSTDriveContainer"] :
       \E fd \in { fields["LSTDriveContainer"][i] } :
         IF fd.name \in AngleFields
           THEN fd.unit = "rad" /\ IsNanIn(fd.default, "rad")
           ELSE fd.unit = "" /\ fd.default.kind # "qty"
  /\ last.op = "new" =>
       \A o \in { c \in NewContainers : heap[c].cls = "LSTDriveContainer" } :
         \A f \in DOMAIN heap[o].slots :
           IF f \in AngleFields THEN IsNanIn(heap[o].slots[f], "rad")
           ELSE heap[o].slots[f].kind # "qty"
  /\ last.op = "to" =>
       /\ last.res.s = "rad"
       /\ SameAngle(last.val, last.res)
       /\ SameAngle(last.val, Convert(last.res, last.val.s))
       /\ heap[last.obj].slots[last.field] = last.val

\* C5 witness: azimuth_avg of an LSTDriveContainer was assigned 90 deg and
\* read back in radians as pi/2, altitude_avg still not-a-number in radians.
C5_Witness ==
  /\ last.op = "to"
  /\ heap[last.obj].cls = "LSTDriveContainer"
  /\ last.field = "azimuth_avg"
  /\ last.val = QtyV(90, 1, 0, "deg")
  /\ last.res = QtyV(90, 180, 1, "rad")
  /\ IsNanIn(heap[last.obj].slots["altitude_avg"], "rad")

\* The LSTContainer records among the objects S of heap h.
LSTContainers(h, S) ==
  { o \in S : h[o].type = "container" /\ h[o].cls = "LSTContainer" }

\* Every telescope id in c.tels_with_data is a key of c.tel.
TelsHaveEntries(h, c) ==
  \A i \in DOMAIN h[h[c].slots["tels_with_data"].n].slots :
    h[h[c].slots["tels_with_data"].n].slots[i].n \in DOMAIN h[h[c].slots["tel"].n].slots

\* C6 as stated: in every reachable state every telescope id in
\* tels_with_data has an entry in tel.
C6_Original ==
  \A c \in LSTContainers(heap, Live) : TelsHaveEntries(heap, c)

\* C6 (amended): a new LSTContainer has tels_with_data and tel empty, and a
\* lookup or an insertion in a tel map keeps, for every LSTContainer, all ids
\* of tels_with_data that had an entry in tel with one.
C6_TelKeepsEntries ==
  /\ [](last.op = "new" =>
          \A c \in LSTContainers(heap, NewContainers) :
            /\ IsEmptyList(heap, heap[c].slots["tels_with_data"])
            /\ heap[heap[c].slots["tel"].n].slots = << >>
            /\ TelsHaveEntries(heap, c))
  /\ [][ (nops' = nops + 1 /\ last'.op \in {"getitem", "setitem"}) =>
           \A c \in LSTContainers(heap, Live) :
             TelsHaveEntries(heap, c) => TelsHaveEntries(heap', c) ]_vars

\* C6 witness: telescope 1 is listed in tels_with_data and has its entry in
\* tel, and telescope 2 has just been looked up.
C6_Witness ==
  /\ last.op = "getitem"
  /\ last.key = 2
  /\ \E c \in LSTContainers(heap, Live) :
       /\ heap[c].slots["tel"].n = last.obj
       /\ heap[heap[c].slots["tels_with_data"].n].slots = << IntV(1) >>
       /\ DOMAIN heap[last.obj].slots = {1, 2}
       /\ TelsHaveEntries(heap, c)

\* The slots of the objects S that hold a reference.
RefSlots(h, S) ==
  UNION { { <<o, x>> : x \in { y \in DOMAIN h[o].slots : IsRef(h[o].slots[y]) } } :
          o \in S }

\* The objects reachable from i form a tree: each but i is held by one slot.
IsTree(h, i) ==
  \E S \in { Reach(h, i) } : Cardinality(RefSlots(h, S)) = Cardinality(S) - 1

\* C7: what the instances own are trees with no object in common, among
\* themselves and with the objects holding the declared defaults; no
\* operation on an instance changes an object of another instance, an object
\* holding a declared default or a class's fields; and an instance made
\* after any of this is at the declared defaults.
C7_NoSharing ==
  /\ [](\A D \in { DefaultObjs(heap, fields) } :
          /\ Live \cap D = {}
          /\ \A r \in DOMAIN roots : IsTree(heap, roots[r])
          /\ \A r1, r2 \in DOMAIN roots :
               r1 # r2 => Reach(heap, roots[r1]) \cap Reach(heap, roots[r2]) = {})
  /\ [][ nops' = nops + 1 =>
           /\ fields' = fields
           /\ \A i \in DefaultObjs(heap, fields) : heap'[i] = heap[i]
           /\ \A r \in DOMAIN roots :
                \A S \in { Reach(heap, roots[r]) } :
                  last'.obj \notin S => \A i \in S : heap'[i] = heap[i] ]_vars
  /\ [](last.op = "new" =>
          FreshInstance(heap, last.obj, heap[last.obj].cls))

\* C7 witness: of two LSTCameraContainer instances one has just had its
\* evt.pixel_status appended to, and the other's is still empty.
C7_Witness ==
  /\ last.op = "append"
  /\ Len(roots) = 2
  /\ heap[roots[1]].cls = "LSTCameraContainer"
  /\ heap[roots[2]].cls = "LSTCameraContainer"
  /\ \E a, b \in { roots[1], roots[2] } :
       /\ heap[heap[a].slots["evt"].n].slots["pixel_status"].n = last.obj
       /\ heap[last.obj].slots # << >>
       /\ IsEmptyList(heap, heap[heap[b].slots["evt"].n].slots["pixel_status"])

\* C8 as stated: LSTDataContainer has one field the base record has not,
\* lst, and every other field it has is the base's, unchanged.
C8_Original ==
  /\ Names(fields["LSTDataContainer"]) \ Names(fields["DataContainer"]) = {"lst"}
  /\ \A f \in Names(fields["LSTDataContainer"]) \ {"lst"} :
       /\ f \in Names(fields["DataContainer"])
       /\ FieldOf(fields["LSTDataContainer"], f) = FieldOf(fields["DataContainer"], f)

\* C8 (amended): LSTDataContainer declares two fields, lst (an LSTContainer)
\* and mon (a MonitoringContainer of its own, also where the base record has
\* a field of that name); every other field it has is the base's, unchanged,
\* and it has all of the base's; its instances have these fields.
C8_TwoFields ==
  /\ Names(fields["LSTDataContainer"]) =
       Names(fields["DataContainer"]) \cup {"lst", "mon"}
  /\ \A f \in Names(fields["LSTDataContainer"]) \ {"lst", "mon"} :
       FieldOf(fields["LSTDataContainer"], f) = FieldOf(fields["DataContainer"], f)
  /\ heap[FieldOf(fields["LSTDataContainer"], "lst").default.n].cls = "LSTContainer"
  /\ heap[FieldOf(fields["LSTDataContainer"], "mon").default.n].cls = "MonitoringContainer"
  /\ "mon" \in Names(fields["DataContainer"]) =>
       FieldOf(fields["LSTDataContainer"], "mon").default #
         FieldOf(fields["DataContainer"], "mon").default
  /\ \A o \in { i \in Live : heap[i].type = "container" /\ heap[i].cls = "LSTDataContainer" } :
       /\ DOMAIN heap[o].slots = Names(fields["LSTDataContainer"])
       /\ heap[heap[o].slots["lst"].n].cls = "LSTContainer"
       /\ heap[heap[o].slots["mon"].n].cls = "MonitoringContainer"

\* C8 witness: a new LSTDataContainer over a base record without mon has
\* the base's count and the two fields lst and mon.
C8_Witness ==
  /\ last.op = "new"
  /\ heap[last.obj].cls = "LSTDataContainer"
  /\ "mon" \notin Names(fields["DataContainer"])
  /\ DOMAIN heap[last.obj].slots = {"count", "lst", "mon"}
  /\ heap[last.obj].slots["count"] = IntV(0)

====
